---- MODULE Spec2Model ----
(***************************************************************************)
(* Model of schema-to-example (src/app.py): generate_example and the       *)
(* recursive builders generate_array_example / generate_object_example,    *)
(* with resolve_ref, as a call-stack machine.                              *)
(*                                                                         *)
(* Python values are modelled as follows.                                  *)
(*   - a schema node (dict) is a record; the key "$ref" is the field ref;  *)
(*   - a `properties` dict is the sequence of its (key, schema) pairs in   *)
(*     insertion order, which is the order properties.items() yields;      *)
(*   - a `definitions` dict is a function from names to schema nodes;      *)
(*   - a reference string is the sequence of its "/"-separated segments,   *)
(*     the empty string being <<"">>;                                      *)
(*   - a generated value carries its Python type in the field k:           *)
(*     [k |-> "string", v |-> "abc"], [k |-> "array", v |-> <<...>>],      *)
(*     [k |-> "object", v |-> function from keys to values].               *)
(***************************************************************************)
EXTENDS Integers, Sequences, FiniteSets, TLC

VARIABLES json_schema, pc, stack, node, error, invoked, resolved

vars == <<json_schema, pc, stack, node, error, invoked, resolved>>

-----------------------------------------------------------------------------
(* Bounds of the model *)

\* how many entries of each literal pool the random choice may pick
MaxPool == 2
\* greatest number of builder calls active at once
MaxDepth == 9

-----------------------------------------------------------------------------
(* Python values *)

None == [none |-> TRUE]
EmptyDict == [a \in {} |-> a]

\* class DataType
DataType_INTEGER == "integer"
DataType_STRING == "string"
DataType_BOOLEAN == "boolean"
DataType_NUMBER == "number"
DataType_OBJECT == "object"
DataType_NULL == DataType_OBJECT
DataType_ARRAY == "array"

LeafTypes == {DataType_STRING, DataType_INTEGER, DataType_NUMBER, DataType_BOOLEAN}

Value(k, v) == [k |-> k, v |-> v]
\* Node.value defaults to that of an object, the empty dict
DefaultValue == Value(DataType_OBJECT, EmptyDict)
Node(type) == [type |-> type, value |-> DefaultValue]

Min(a, b) == IF a < b THEN a ELSE b
Pool(examples) == {examples[i] : i \in 1..Min(Len(examples), MaxPool)}

StringExamples ==
  <<"a", "abc", "this-is-an-example_string", "what", "why?", "where?",
    "kangaroo", "praire", "savanah", "jungle", "earth", "mars", "Buggati",
    "Mercedes", "Mark Johnson", "Ron F Swanson", "Chris Pratt",
    "Guradians of Galaxy", "Zingaro!">>
IntegerExamples ==
  <<0, 1, 2, 3, 4, 5, 6, 7, 8, 9, 10, 100, 999, 1000, 2121, 9845, 9943,
    1983, 1984, 4405, 1020>>
\* the decimal literals, written as text
NumberExamples == <<"1.000", "2.903", "3.1416", "4.24", "5.25", "1020000.000">>
BooleanExamples == <<TRUE, FALSE>>

generate_string_example == {Value(DataType_STRING, s) : s \in Pool(StringExamples)}
generate_integer_example == {Value(DataType_INTEGER, n) : n \in Pool(IntegerExamples)}
generate_number_example == {Value(DataType_NUMBER, d) : d \in Pool(NumberExamples)}
generate_boolean_example == {Value(DataType_BOOLEAN, b) : b \in Pool(BooleanExamples)}

\* the leaf branches of the type dispatch: the values choice() may return
LeafExamples(type) ==
  IF type = DataType_STRING THEN generate_string_example
  ELSE IF type = DataType_INTEGER THEN generate_integer_example
  ELSE IF type = DataType_NUMBER THEN generate_number_example
  ELSE generate_boolean_example

LeafGenerator(type) ==
  IF type = DataType_STRING THEN "generate_string_example"
  ELSE IF type = DataType_INTEGER THEN "generate_integer_example"
  ELSE IF type = DataType_NUMBER THEN "generate_number_example"
  ELSE "generate_boolean_example"

\* choice([0, 1, 2, 3])
ItemCounts == {0, 1, 2, 3}

\* `not json_schema`
FalsyNoneOnly(schema) == schema = None
Falsy(schema) == schema = None \/ DOMAIN schema = {}

Has(d, key) == key \in DOMAIN d

\* `JsonSchemaKeyword.REF in v and v[JsonSchemaKeyword.REF]`
HasRef(v) == Has(v, "ref") /\ v.ref # <<"">>

\* ref.split("/")[-1], looked up in definitions
resolve_ref_first(ref, definitions) ==
  IF ref[1] \in DOMAIN definitions THEN definitions[ref[1]] ELSE None
resolve_ref_fallback(ref, definitions) ==
  IF ref[Len(ref)] \in DOMAIN definitions THEN definitions[ref[Len(ref)]]
  ELSE IF DOMAIN definitions # {}
       THEN definitions[CHOOSE n \in DOMAIN definitions : TRUE]
       ELSE None
resolve_ref(ref, definitions) ==
  IF ref[Len(ref)] \in DOMAIN definitions THEN definitions[ref[Len(ref)]]
  ELSE None

\* value[k] = node.value
SetItemSkipDefault(value, k, x) ==
  IF x = DefaultValue THEN value ELSE (k :> x) @@ value
SetItem(value, k, x) == (k :> x) @@ value

\* for i in range(0, item_count)
InRangeInclusive(i, item_count) == i <= item_count
InRange(i, item_count) == i < item_count

KeyError(key, line) == [type |-> "KeyError", key |-> key, line |-> line]
TypeError(line) == [type |-> "TypeError", key |-> "", line |-> line]

-----------------------------------------------------------------------------
(* Call stack *)

ArrayCall(items, definitions) ==
  [fn |-> "generate_array_example", at |-> "entry",
   items |-> items, definitions |-> definitions]

ArrayFrame(items, definitions, item_count, type) ==
  [fn |-> "generate_array_example", at |-> "loop",
   items |-> items, definitions |-> definitions,
   item_count |-> item_count, type |-> type, i |-> 0, value |-> <<>>]

ObjectCall(properties, definitions) ==
  [fn |-> "generate_object_example", at |-> "loop",
   properties |-> properties, definitions |-> definitions,
   idx |-> 1, value |-> EmptyDict]

Top == stack[Len(stack)]
Running == pc = "running" /\ stack # <<>>
InArray(at) == Running /\ Top.fn = "generate_array_example" /\ Top.at = at
InObject == Running /\ Top.fn = "generate_object_example"

\* the caller's use of a generated value: value.append(node.value) in the
\* array builder, value[k] = node.value in the object builder
Store(f, x) ==
  IF f.fn = "generate_array_example"
  THEN [f EXCEPT !.value = Append(@, x), !.i = @ + 1]
  ELSE [f EXCEPT !.value = SetItem(@, f.properties[f.idx][1], x),
                 !.idx = @ + 1]

StoreInTop(x) == stack' = [stack EXCEPT ![Len(stack)] = Store(Top, x)]
Push(f) == Len(stack) < MaxDepth /\ stack' = Append(stack, f)

Raise(e) ==
  /\ pc' = "raised"
  /\ error' = e
  /\ UNCHANGED <<json_schema, stack>>

\* `return value`: back in the caller, or in generate_example `return node`
Return(x) ==
  LET rest == SubSeq(stack, 1, Len(stack) - 1) IN
  /\ IF rest = <<>>
     THEN /\ stack' = <<>>
          /\ node' = [node EXCEPT !.value = x]
          /\ pc' = "returned"
     ELSE /\ stack' = [rest EXCEPT ![Len(rest)] = Store(rest[Len(rest)], x)]
          /\ UNCHANGED <<node, pc>>
  /\ UNCHANGED <<json_schema, error, invoked, resolved>>

-----------------------------------------------------------------------------
(* generate_example *)

\* if not json_schema: raise Exception("Expected a JSON schema, none found!")
GenerateExampleInvalid ==
  /\ pc = "start"
  /\ Falsy(json_schema)
  /\ Raise([type |-> "Exception", key |-> "", line |-> 89])
  /\ UNCHANGED <<node, invoked, resolved>>

\* json_schema[TYPE], json_schema[ITEMS], json_schema[PROPERTIES] and
\* json_schema[DEFINITIONS] are plain subscripts: a missing key raises
GenerateExampleKeyError ==
  /\ pc = "start"
  /\ ~Falsy(json_schema)
  /\ IF ~Has(json_schema, "type")
     THEN Raise(KeyError("type", 91)) /\ UNCHANGED node
     ELSE /\ node' = Node(json_schema.type)
          /\ \/ /\ json_schema.type = DataType_ARRAY
                /\ IF ~Has(json_schema, "items")
                   THEN Raise(KeyError("items", 103))
                   ELSE /\ ~Has(json_schema, "definitions")
                        /\ Raise(KeyError("definitions", 103))
             \/ /\ json_schema.type = DataType_OBJECT
                /\ IF ~Has(json_schema, "properties")
                   THEN Raise(KeyError("properties", 106))
                   ELSE /\ ~Has(json_schema, "definitions")
                        /\ Raise(KeyError("definitions", 106))
  /\ UNCHANGED <<invoked, resolved>>

GenerateExampleLeaf ==
  /\ pc = "start"
  /\ ~Falsy(json_schema)
  /\ Has(json_schema, "type")
  /\ json_schema.type \in LeafTypes
  /\ \E x \in LeafExamples(json_schema.type) :
       node' = [Node(json_schema.type) EXCEPT !.value = x]
  /\ pc' = "returned"
  /\ invoked' = invoked \cup {LeafGenerator(json_schema.type)}
  /\ UNCHANGED <<json_schema, stack, error, resolved>>

\* no branch of the dispatch matches: the node keeps its default value
GenerateExampleDefault ==
  /\ pc = "start"
  /\ ~Falsy(json_schema)
  /\ Has(json_schema, "type")
  /\ json_schema.type \notin LeafTypes \cup {DataType_ARRAY, DataType_OBJECT}
  /\ node' = Node(json_schema.type)
  /\ pc' = "returned"
  /\ UNCHANGED <<json_schema, stack, error, invoked, resolved>>

GenerateExampleArray ==
  /\ pc = "start"
  /\ ~Falsy(json_schema)
  /\ Has(json_schema, "type")
  /\ json_schema.type = DataType_ARRAY
  /\ Has(json_schema, "items")
  /\ Has(json_schema, "definitions")
  /\ node' = Node(json_schema.type)
  /\ Push(ArrayCall(json_schema.items, json_schema.definitions))
  /\ pc' = "running"
  /\ invoked' = invoked \cup {"generate_array_example"}
  /\ UNCHANGED <<json_schema, error, resolved>>

GenerateExampleObject ==
  /\ pc = "start"
  /\ ~Falsy(json_schema)
  /\ Has(json_schema, "type")
  /\ json_schema.type = DataType_OBJECT
  /\ Has(json_schema, "properties")
  /\ Has(json_schema, "definitions")
  /\ node' = Node(json_schema.type)
  /\ Push(ObjectCall(json_schema.properties, json_schema.definitions))
  /\ pc' = "running"
  /\ invoked' = invoked \cup {"generate_object_example"}
  /\ UNCHANGED <<json_schema, error, resolved>>

-----------------------------------------------------------------------------
(* generate_array_example *)

\* the schema a `$ref` on v resolves to
RefSchema(v, definitions) == resolve_ref(v.ref, definitions)

\* schema[JsonSchemaKeyword.TYPE] fails: schema is None, or has no type
RefFails(v, definitions) ==
  /\ HasRef(v)
  /\ \/ RefSchema(v, definitions) = None
     \/ ~Has(RefSchema(v, definitions), "type")

RefError(v, definitions, line) ==
  IF RefSchema(v, definitions) = None THEN TypeError(line)
  ELSE KeyError("type", line)

\* the calls and the references of the `$ref` block
RefCalls(v) == IF HasRef(v) THEN {"resolve_ref"} ELSE {}
RefsOf(v) == IF HasRef(v) THEN {v.ref} ELSE {}

\* type = items[TYPE], overridden by the type of the referenced schema
ItemType(items, definitions) ==
  IF HasRef(items) THEN RefSchema(items, definitions).type ELSE items.type

\* item_count, type and the `$ref` block, up to the loop
ArrayEntry ==
  /\ InArray("entry")
  /\ Has(Top.items, "type")
  /\ ~RefFails(Top.items, Top.definitions)
  /\ \E item_count \in ItemCounts :
       stack' = [stack EXCEPT ![Len(stack)] =
                   ArrayFrame(Top.items, Top.definitions, item_count,
                              ItemType(Top.items, Top.definitions))]
  /\ invoked' = invoked \cup RefCalls(Top.items)
  /\ resolved' = resolved \cup RefsOf(Top.items)
  /\ UNCHANGED <<json_schema, pc, node, error>>

ArrayEntryError ==
  /\ InArray("entry")
  /\ IF ~Has(Top.items, "type")
     THEN /\ Raise(KeyError("type", 209))
          /\ UNCHANGED <<invoked, resolved>>
     ELSE /\ RefFails(Top.items, Top.definitions)
          /\ Raise(RefError(Top.items, Top.definitions, 216))
          /\ invoked' = invoked \cup RefCalls(Top.items)
          /\ resolved' = resolved \cup RefsOf(Top.items)
  /\ UNCHANGED node

ArrayItemLeaf ==
  /\ InArray("loop")
  /\ InRange(Top.i, Top.item_count)
  /\ Top.type \in LeafTypes
  /\ \E x \in LeafExamples(Top.type) : StoreInTop(x)
  /\ invoked' = invoked \cup {LeafGenerator(Top.type)}
  /\ UNCHANGED <<json_schema, pc, node, error, resolved>>

ArrayItemDefault ==
  /\ InArray("loop")
  /\ InRange(Top.i, Top.item_count)
  /\ Top.type \notin LeafTypes \cup {DataType_ARRAY, DataType_OBJECT}
  /\ StoreInTop(DefaultValue)
  /\ UNCHANGED <<json_schema, pc, node, error, invoked, resolved>>

\* generate_array_example(items[ITEMS], definitions)
ArrayItemArray ==
  /\ InArray("loop")
  /\ InRange(Top.i, Top.item_count)
  /\ Top.type = DataType_ARRAY
  /\ Has(Top.items, "items")
  /\ Push(ArrayCall(Top.items.items, Top.definitions))
  /\ invoked' = invoked \cup {"generate_array_example"}
  /\ UNCHANGED <<json_schema, pc, node, error, resolved>>

\* generate_object_example(items[PROPERTIES], definitions)
ArrayItemObject ==
  /\ InArray("loop")
  /\ InRange(Top.i, Top.item_count)
  /\ Top.type = DataType_OBJECT
  /\ Has(Top.items, "properties")
  /\ Push(ObjectCall(Top.items.properties, Top.definitions))
  /\ invoked' = invoked \cup {"generate_object_example"}
  /\ UNCHANGED <<json_schema, pc, node, error, resolved>>

ArrayItemKeyError ==
  /\ InArray("loop")
  /\ InRange(Top.i, Top.item_count)
  /\ \/ /\ Top.type = DataType_ARRAY
        /\ ~Has(Top.items, "items")
        /\ Raise(KeyError("items", 231))
     \/ /\ Top.type = DataType_OBJECT
        /\ ~Has(Top.items, "properties")
        /\ Raise(KeyError("properties", 234))
  /\ UNCHANGED <<node, invoked, resolved>>

ArrayReturn ==
  /\ InArray("loop")
  /\ ~InRange(Top.i, Top.item_count)
  /\ Return(Value(DataType_ARRAY, Top.value))

-----------------------------------------------------------------------------
(* generate_object_example *)

\* the property the loop is at: k, v of `for k, v in properties.items()`
HasNext(f) == f.idx <= Len(f.properties)
CurSchema(f) == f.properties[f.idx][2]
AtProperty == InObject /\ HasNext(Top)

\* type = v[TYPE] if TYPE in v else DataType.NULL, overridden by the type of
\* the referenced schema
PropertyType(v, definitions) ==
  IF HasRef(v) THEN RefSchema(v, definitions).type
  ELSE IF Has(v, "type") THEN v.type ELSE DataType_NULL

\* `props` is set and is not empty
HasProps(v, definitions) ==
  /\ HasRef(v)
  /\ Has(RefSchema(v, definitions), "properties")
  /\ RefSchema(v, definitions).properties # <<>>

\* v[PROPERTIES] if not props else props
ChildProperties(v, definitions) ==
  IF HasProps(v, definitions) THEN RefSchema(v, definitions).properties
  ELSE v.properties

\* schema[TYPE] on the result of resolve_ref fails
ObjectRefError ==
  /\ AtProperty
  /\ RefFails(CurSchema(Top), Top.definitions)
  /\ Raise(RefError(CurSchema(Top), Top.definitions, 258))
  /\ invoked' = invoked \cup RefCalls(CurSchema(Top))
  /\ resolved' = resolved \cup RefsOf(CurSchema(Top))
  /\ UNCHANGED node

ObjectPropertyLeaf ==
  /\ AtProperty
  /\ ~RefFails(CurSchema(Top), Top.definitions)
  /\ PropertyType(CurSchema(Top), Top.definitions) \in LeafTypes
  /\ \E x \in LeafExamples(PropertyType(CurSchema(Top), Top.definitions)) :
       StoreInTop(x)
  /\ invoked' = invoked \cup RefCalls(CurSchema(Top))
       \cup {LeafGenerator(PropertyType(CurSchema(Top), Top.definitions))}
  /\ resolved' = resolved \cup RefsOf(CurSchema(Top))
  /\ UNCHANGED <<json_schema, pc, node, error>>

ObjectPropertyDefault ==
  /\ AtProperty
  /\ ~RefFails(CurSchema(Top), Top.definitions)
  /\ PropertyType(CurSchema(Top), Top.definitions)
       \notin LeafTypes \cup {DataType_ARRAY, DataType_OBJECT}
  /\ StoreInTop(DefaultValue)
  /\ invoked' = invoked \cup RefCalls(CurSchema(Top))
  /\ resolved' = resolved \cup RefsOf(CurSchema(Top))
  /\ UNCHANGED <<json_schema, pc, node, error>>

\* generate_array_example(v[ITEMS], definitions)
ObjectPropertyArray ==
  /\ AtProperty
  /\ ~RefFails(CurSchema(Top), Top.definitions)
  /\ PropertyType(CurSchema(Top), Top.definitions) = DataType_ARRAY
  /\ Has(CurSchema(Top), "items")
  /\ Push(ArrayCall(CurSchema(Top).items, Top.definitions))
  /\ invoked' = invoked \cup RefCalls(CurSchema(Top))
       \cup {"generate_array_example"}
  /\ resolved' = resolved \cup RefsOf(CurSchema(Top))
  /\ UNCHANGED <<json_schema, pc, node, error>>

\* generate_object_example(v[PROPERTIES] if not props else props, definitions)
ObjectPropertyObject ==
  /\ AtProperty
  /\ ~RefFails(CurSchema(Top), Top.definitions)
  /\ PropertyType(CurSchema(Top), Top.definitions) = DataType_OBJECT
  /\ HasProps(CurSchema(Top), Top.definitions) \/ Has(CurSchema(Top), "properties")
  /\ Push(ObjectCall(ChildProperties(CurSchema(Top), Top.definitions),
                     Top.definitions))
  /\ invoked' = invoked \cup RefCalls(CurSchema(Top))
       \cup {"generate_object_example"}
  /\ resolved' = resolved \cup RefsOf(CurSchema(Top))
  /\ UNCHANGED <<json_schema, pc, node, error>>

\* v[ITEMS] or v[PROPERTIES] is missing
ObjectPropertyKeyError ==
  /\ AtProperty
  /\ ~RefFails(CurSchema(Top), Top.definitions)
  /\ \/ /\ PropertyType(CurSchema(Top), Top.definitions) = DataType_ARRAY
        /\ ~Has(CurSchema(Top), "items")
        /\ Raise(KeyError("items", 273))
     \/ /\ PropertyType(CurSchema(Top), Top.definitions) = DataType_OBJECT
        /\ ~HasProps(CurSchema(Top), Top.definitions)
        /\ ~Has(CurSchema(Top), "properties")
        /\ Raise(KeyError("properties", 276))
  /\ invoked' = invoked \cup RefCalls(CurSchema(Top))
  /\ resolved' = resolved \cup RefsOf(CurSchema(Top))
  /\ UNCHANGED node

ObjectReturn ==
  /\ InObject
  /\ ~HasNext(Top)
  /\ Return(Value(DataType_OBJECT, Top.value))

-----------------------------------------------------------------------------
(* Inputs: the schemas generate_example is called with *)

Ref(name) == <<"#", "definitions", name>>
Leaf(type) == [type |-> type]
Obj(properties) == [type |-> DataType_OBJECT, properties |-> properties]
Arr(items) == [type |-> DataType_ARRAY, items |-> items]
WithDefinitions(schema, definitions) ==
  schema @@ [definitions |-> definitions]

Point == Obj(<< <<"x", Leaf("number")>>, <<"y", Leaf("number")>> >>)

\* a table without reference cycle; Again refers to a name that is absent
Defs ==
  [Point |-> Point,
   S |-> Leaf("string"),
   L |-> Arr(Leaf("string")),
   E |-> Obj(<<>>),
   Again |-> Obj(<< <<"again", [ref |-> <<"Again", "definitions", "Zz">>]>> >>)]

\* A and B refer to each other through object properties
ObjectCycle ==
  [A |-> Obj(<< <<"b", [ref |-> Ref("B")]>> >>),
   B |-> Obj(<< <<"a", [ref |-> Ref("A")]>> >>)]

\* A and B refer to each other through array items
ArrayCycle ==
  [A |-> Arr([type |-> "string", ref |-> Ref("B")]),
   B |-> Arr([type |-> "string", ref |-> Ref("A")])]

\* C1 -> C2 -> C3, each definition two objects deep
Chain ==
  [C1 |-> Obj(<< <<"in", Obj(<< <<"next", [ref |-> Ref("C2")]>> >>)>> >>),
   C2 |-> Obj(<< <<"in", Obj(<< <<"next", [ref |-> Ref("C3")]>> >>)>> >>),
   C3 |-> Obj(<< <<"in", Obj(<< <<"last", Leaf("boolean")>> >>)>> >>)]

Schemas ==
  { None,
    EmptyDict,
    Leaf("boolean"),
    Leaf("string"),
    Leaf("integer"),
    Leaf("number"),
    Leaf("null"),
    [definitions |-> EmptyDict],
    [title |-> "t", items |-> Leaf("string")],
    \* no `definitions` key
    Obj(<< <<"n", Leaf("integer")>> >>),
    Arr(Leaf("string")),
    [type |-> DataType_ARRAY, definitions |-> EmptyDict],
    [type |-> DataType_OBJECT, definitions |-> EmptyDict],
    \* arrays
    WithDefinitions(Arr(Leaf("string")), EmptyDict),
    WithDefinitions(Arr(Leaf("null")), EmptyDict),
    WithDefinitions(Arr([title |-> "t"]), EmptyDict),
    WithDefinitions(Arr(Arr(Leaf("null"))), EmptyDict),
    WithDefinitions(Arr(Obj(<< <<"b", Leaf("boolean")>> >>)), EmptyDict),
    WithDefinitions(Arr(Leaf("array")), EmptyDict),
    WithDefinitions(Arr(Leaf("object")), EmptyDict),
    WithDefinitions(Arr([ref |-> Ref("S")]), Defs),
    WithDefinitions(Arr([type |-> "integer", ref |-> Ref("S")]), Defs),
    WithDefinitions(Arr([type |-> "integer", ref |-> <<"">>]), Defs),
    WithDefinitions(Arr([type |-> "string", ref |-> Ref("Point"),
                         properties |-> << <<"q", Leaf("boolean")>> >>]), Defs),
    WithDefinitions(Arr([type |-> "string", ref |-> Ref("Zz")]), Defs),
    WithDefinitions(Arr([type |-> "string", ref |-> Ref("T")]),
                    [T |-> [title |-> "t"]]),
    \* objects
    WithDefinitions(Obj(<<>>), EmptyDict),
    WithDefinitions(Obj(<< <<"x", [ref |-> Ref("Point")]>> >>),
                    [Point |-> Point]),
    WithDefinitions(
      [type |-> DataType_OBJECT, required |-> <<"n">>,
       properties |-> << <<"n", Leaf("integer")>>,
                         <<"flag", Leaf("boolean")>>,
                         <<"tag", Leaf("null")>>,
                         <<"name", [type |-> "integer", ref |-> Ref("S")]>>,
                         <<"list", Arr(Leaf("boolean"))>>,
                         <<"sub", [properties |-> << <<"q", Leaf("number")>> >>]>>
                      >>], Defs),
    WithDefinitions(Obj(<< <<"p", EmptyDict>> >>), EmptyDict),
    WithDefinitions(Obj(<< <<"p", Leaf("null")>> >>), EmptyDict),
    WithDefinitions(Obj(<< <<"x", [ref |-> Ref("L")]>> >>), Defs),
    WithDefinitions(Obj(<< <<"x", [ref |-> Ref("L"),
                                   items |-> Leaf("integer")]>> >>), Defs),
    WithDefinitions(Obj(<< <<"x", [ref |-> Ref("E")]>> >>), Defs),
    WithDefinitions(Obj(<< <<"x", [ref |-> Ref("E"),
                                   properties |-> << <<"q", Leaf("boolean")>> >>]>> >>),
                    Defs),
    WithDefinitions(Obj(<< <<"x", [type |-> "string", ref |-> <<"">>]>> >>), Defs),
    WithDefinitions(Obj(<< <<"x", [ref |-> Ref("Zz")]>> >>), Defs),
    WithDefinitions(Obj(<< <<"n", Leaf("integer")>>,
                           <<"x", [type |-> "string",
                                   ref |-> <<"Again", "definitions", "Zz">>]>> >>), Defs),
    WithDefinitions(Obj(<< <<"x", [ref |-> Ref("Again")]>> >>), Defs),
    WithDefinitions(Obj(<< <<"x", [ref |-> Ref("T")]>> >>),
                    [T |-> [title |-> "t"]]),
    \* reference cycles
    WithDefinitions(Obj(<< <<"x", [ref |-> Ref("A")]>> >>), ObjectCycle),
    WithDefinitions(Arr([type |-> "string", ref |-> Ref("A"),
                         items |-> Leaf("string")]), ArrayCycle),
    WithDefinitions(Arr([type |-> "string", ref |-> Ref("A")]), ArrayCycle),
    \* a chain of references
    WithDefinitions(Obj(<< <<"x", [ref |-> Ref("C1")]>> >>), Chain) }

-----------------------------------------------------------------------------
(* The state machine *)

Init ==
  /\ json_schema \in Schemas
  /\ pc = "start"
  /\ stack = <<>>
  /\ node = None
  /\ error = None
  /\ invoked = {}
  /\ resolved = {}

Next ==
  \/ GenerateExampleInvalid
  \/ GenerateExampleKeyError
  \/ GenerateExampleLeaf
  \/ GenerateExampleDefault
  \/ GenerateExampleArray
  \/ GenerateExampleObject
  \/ ArrayEntry
  \/ ArrayEntryError
  \/ ArrayItemLeaf
  \/ ArrayItemDefault
  \/ ArrayItemArray
  \/ ArrayItemObject
  \/ ArrayItemKeyError
  \/ ArrayReturn
  \/ ObjectRefError
  \/ ObjectPropertyLeaf
  \/ ObjectPropertyDefault
  \/ ObjectPropertyArray
  \/ ObjectPropertyObject
  \/ ObjectPropertyKeyError
  \/ ObjectReturn

Spec == Init /\ [][Next]_vars

\* the call runs to its end: a single thread that is never suspended
FairSpec == Spec /\ WF_vars(Next)

TypeOK ==
  /\ pc \in {"start", "running", "returned", "raised"}
  /\ Len(stack) <= MaxDepth
  /\ (pc = "raised") = (error # None)
  /\ (pc = "returned") => node # None /\ stack = <<>>

-----------------------------------------------------------------------------
(* Vocabulary of the properties *)

Max(S) == CHOOSE m \in S : \A n \in S : n <= m
Range(seq) == {seq[i] : i \in 1..Len(seq)}
Keys(properties) == {properties[i][1] : i \in 1..Len(properties)}

KnownTypes == LeafTypes \cup {DataType_ARRAY, DataType_OBJECT}
Done == pc \in {"returned", "raised"}

DefinitionsOf(schema) ==
  IF Has(schema, "definitions") THEN schema.definitions ELSE EmptyDict
InputDefinitions == DefinitionsOf(json_schema)

\* the definition a reference names: its final path segment
RefName(ref) == ref[Len(ref)]
\* v carries a `$ref` that names a definition of the table
PresentRef(v, definitions) ==
  Has(v, "ref") /\ v.ref # <<"">> /\ RefName(v.ref) \in DOMAIN definitions
Target(v, definitions) == definitions[RefName(v.ref)]

\* the names a schema node refers to, in itself or in its inline children
RECURSIVE RefNames(_)
RefNames(v) ==
  (IF Has(v, "ref") /\ v.ref # <<"">> THEN {RefName(v.ref)} ELSE {})
  \cup (IF Has(v, "items") THEN RefNames(v.items) ELSE {})
  \cup (IF Has(v, "properties")
        THEN UNION {RefNames(v.properties[i][2]) : i \in 1..Len(v.properties)}
        ELSE {})

\* the definitions reachable from a set of names along references
Refers(definitions, n) == RefNames(definitions[n]) \cap DOMAIN definitions
RECURSIVE Reachable(_, _)
Reachable(definitions, names) ==
  LET more == names \cup UNION {Refers(definitions, n) : n \in names}
  IN IF more = names THEN names ELSE Reachable(definitions, more)
OnCycle(definitions, n) ==
  n \in DOMAIN definitions
  /\ n \in Reachable(definitions, Refers(definitions, n))
Acyclic(definitions) == \A n \in DOMAIN definitions : ~OnCycle(definitions, n)

\* the number of references on the longest chain that starts at a name
RECURSIVE ChainFrom(_, _)
ChainFrom(definitions, n) ==
  1 + Max({0} \cup {ChainFrom(definitions, m) : m \in Refers(definitions, n)})
LongestChain(schema) ==
  Max({0} \cup {ChainFrom(DefinitionsOf(schema), n) :
                  n \in RefNames(schema) \cap DOMAIN DefinitionsOf(schema)})

\* how deep properties/items nest inside a node, references not followed
RECURSIVE InlineDepth(_)
InlineDepth(v) ==
  IF ~Has(v, "items") /\ ~Has(v, "properties") THEN 0
  ELSE 1 + Max({0}
        \cup (IF Has(v, "items") THEN {InlineDepth(v.items)} ELSE {})
        \cup (IF Has(v, "properties")
              THEN {InlineDepth(v.properties[i][2]) : i \in 1..Len(v.properties)}
              ELSE {}))
MaxDefinitionDepth(schema) ==
  Max({0} \cup {InlineDepth(DefinitionsOf(schema)[n]) :
                  n \in DOMAIN DefinitionsOf(schema)})

\* a node whose composite types have their `properties` / `items`
RECURSIVE WellFormed(_)
WellFormed(v) ==
  /\ Has(v, "type")
  /\ v.type = DataType_ARRAY => Has(v, "items") /\ WellFormed(v.items)
  /\ v.type = DataType_OBJECT =>
       /\ Has(v, "properties")
       /\ \A i \in 1..Len(v.properties) : WellFormed(v.properties[i][2])

\* val is a value of the given type tag; any other tag stands for the
\* default, the empty object
Matches(val, type) ==
  IF type \in LeafTypes THEN val.k = type
  ELSE IF type = DataType_ARRAY THEN val.k = "array" /\ Len(val.v) \in 0..3
  ELSE val.k = "object"

SamplePool(type) ==
  IF type = DataType_STRING THEN Range(StringExamples)
  ELSE IF type = DataType_INTEGER THEN Range(IntegerExamples)
  ELSE IF type = DataType_NUMBER THEN Range(NumberExamples)
  ELSE Range(BooleanExamples)

\* val is an example of schema node v, a `$ref` on v standing for the
\* definition it names
RECURSIVE Conforms(_, _, _)
Conforms(val, v, definitions) ==
  LET s == IF PresentRef(v, definitions) THEN Target(v, definitions) ELSE v IN
  IF ~Has(s, "type") \/ s.type \notin KnownTypes THEN val = DefaultValue
  ELSE IF s.type \in LeafTypes
       THEN val.k = s.type /\ val.v \in SamplePool(s.type)
  ELSE IF s.type = DataType_ARRAY
       THEN /\ val.k = "array"
            /\ Len(val.v) \in 0..3
            /\ Has(s, "items")
            /\ \A i \in 1..Len(val.v) : Conforms(val.v[i], s.items, definitions)
  ELSE /\ val.k = "object"
       /\ Has(s, "properties")
       /\ DOMAIN val.v = Keys(s.properties)
       /\ \A i \in 1..Len(s.properties) :
            Conforms(val.v[s.properties[i][1]], s.properties[i][2], definitions)

ObjectFrames == {i \in 1..Len(stack) : stack[i].fn = "generate_object_example"}
ArrayFrames ==
  {i \in 1..Len(stack) : stack[i].fn = "generate_array_example"
                          /\ stack[i].at = "loop"}
RaisedIn(i) == pc = "raised" /\ i = Len(stack)

-----------------------------------------------------------------------------
(* Properties *)

\* C1: called with None or with an empty mapping, generate_example raises
\* its explicit exception before any generator or resolve_ref is invoked,
\* and no node, whole or partial, comes back.
C1_InvalidInputFailsFast ==
  (json_schema = None \/ json_schema = EmptyDict) /\ pc # "start" =>
    /\ pc = "raised"
    /\ error = [type |-> "Exception", key |-> "", line |-> 89]
    /\ node = None
    /\ invoked = {}
    /\ stack = <<>>

C1_Witness == pc = "raised" /\ json_schema = EmptyDict

\* C2: the mapping generate_object_example builds has one entry per property
\* visited, keyed identically; the mapping returned for a schema of type
\* object has exactly the keys of `properties`, whatever `required` lists.
C2_ObjectKeysAreProperties ==
  /\ \A i \in ObjectFrames :
       /\ DOMAIN stack[i].value
            = Keys(SubSeq(stack[i].properties, 1, stack[i].idx - 1))
       /\ ~HasNext(stack[i]) => DOMAIN stack[i].value = Keys(stack[i].properties)
  /\ pc = "returned" /\ Has(json_schema, "type")
       /\ json_schema.type = DataType_OBJECT =>
       /\ node.value.k = "object"
       /\ DOMAIN node.value.v = Keys(json_schema.properties)

C2_Witness ==
  /\ pc = "returned"
  /\ Has(json_schema, "required")
  /\ json_schema.type = DataType_OBJECT
  /\ Cardinality(DOMAIN node.value.v) = 6

\* C3: the sequence generate_array_example builds never grows beyond the
\* chosen item count, which is one of 0, 1, 2, 3; it is returned when its
\* length is the count; every element is a value of the element type.
C3_ArrayLengthAndElements ==
  /\ \A i \in ArrayFrames :
       /\ stack[i].item_count \in {0, 1, 2, 3}
       /\ Len(stack[i].value) = stack[i].i
       /\ stack[i].i <= stack[i].item_count
       /\ \A j \in 1..Len(stack[i].value) :
            Matches(stack[i].value[j], stack[i].type)
  /\ pc = "returned" /\ Has(json_schema, "type")
       /\ json_schema.type = DataType_ARRAY =>
       /\ node.value.k = "array"
       /\ Len(node.value.v) \in {0, 1, 2, 3}
       /\ \A j \in 1..Len(node.value.v) :
            Matches(node.value.v[j],
                    IF PresentRef(json_schema.items, InputDefinitions)
                    THEN Target(json_schema.items, InputDefinitions).type
                    ELSE json_schema.items.type)

C3_Witness ==
  /\ pc = "returned"
  /\ json_schema = WithDefinitions(Arr(Leaf("string")), EmptyDict)
  /\ Len(node.value.v) = 3

\* C4: a well-formed schema of type object or array that has no
\* `definitions` key and uses no `$ref` is generated without error, and the
\* value returned conforms to it.
C4_DefinitionsOptional ==
  /\ ~Falsy(json_schema)
  /\ WellFormed(json_schema)
  /\ json_schema.type \in {DataType_ARRAY, DataType_OBJECT}
  /\ ~Has(json_schema, "definitions")
  /\ RefNames(json_schema) = {}
  => /\ pc # "raised"
     /\ pc = "returned" => Conforms(node.value, json_schema, EmptyDict)

\* C5: in generate_object_example a property whose `$ref` names a present
\* definition gets a value that conforms to the referenced schema, and the
\* property needs no `items` / `properties` of its own for that.
C5_PropertyRefConforms ==
  \A i \in ObjectFrames :
    \A j \in 1..Len(stack[i].properties) :
      LET v == stack[i].properties[j][2] IN
      PresentRef(v, stack[i].definitions) =>
        /\ j < stack[i].idx =>
             Conforms(stack[i].value[stack[i].properties[j][1]],
                      v, stack[i].definitions)
        /\ ~(RaisedIn(i) /\ j = stack[i].idx /\ error.line \in {273, 276})

\* C6: in generate_array_example, `items` with a `$ref` that names a present
\* definition needs no inline type, the element type is the type of the
\* referenced schema, and every element conforms to the referenced schema.
C6_ItemsRefConforms ==
  /\ \A i \in ArrayFrames :
       PresentRef(stack[i].items, stack[i].definitions) =>
         /\ stack[i].type = Target(stack[i].items, stack[i].definitions).type
         /\ \A j \in 1..Len(stack[i].value) :
              Conforms(stack[i].value[j], stack[i].items, stack[i].definitions)
  /\ \A i \in 1..Len(stack) :
       /\ stack[i].fn = "generate_array_example"
       /\ stack[i].at = "entry"
       /\ PresentRef(stack[i].items, stack[i].definitions)
       /\ Has(Target(stack[i].items, stack[i].definitions), "type")
       => ~RaisedIn(i)

\* C7: a reference is looked up by its final path segment; when no
\* definition has that name the resolver raises nothing and the call fails
\* where the caller subscripts the absent result.
C7_MissingRefFails ==
  (\E r \in resolved : RefName(r) \notin DOMAIN InputDefinitions) =>
    /\ pc = "raised"
    /\ error.type = "TypeError"
    /\ error.line \in {216, 258}

C7_Witness ==
  /\ pc = "raised"
  /\ \E r \in resolved : /\ r[1] \in DOMAIN InputDefinitions
                         /\ RefName(r) \notin DOMAIN InputDefinitions

\* C8: a schema node (without `$ref`) whose type is missing or unknown
\* never raises: at the top level the node returned holds the empty object,
\* and as a property the empty object is stored under its key.
C8_UnknownTypeIsDefault ==
  /\ ~Falsy(json_schema)
       /\ (~Has(json_schema, "type") \/ json_schema.type \notin KnownTypes) =>
       /\ pc # "raised"
       /\ pc = "returned" => node.value = DefaultValue
  /\ \A i \in ObjectFrames :
       \A j \in 1..Len(stack[i].properties) :
         LET v == stack[i].properties[j][2] IN
         ~Has(v, "ref") /\ (~Has(v, "type") \/ v.type \notin KnownTypes) =>
           /\ j < stack[i].idx =>
                stack[i].value[stack[i].properties[j][1]] = DefaultValue
           /\ j = stack[i].idx => ~RaisedIn(i) /\ i = Len(stack)

\* C9: once generation has resolved a `$ref` that lies on a reference cycle
\* of the definitions table, the call neither returns nor raises.
C9_CycleNeverEnds ==
  (\E r \in resolved : OnCycle(InputDefinitions, RefName(r))) => ~Done

AcyclicInput == Acyclic(InputDefinitions)

\* C10 as stated: without a reference cycle the call ends, and the builder
\* calls never nest deeper than the inline nesting depth of the schema
\* document (a definition sits one level below its root) plus the length of
\* the longest chain of references.
C10_DepthWithinNestingPlusChain ==
  /\ [](AcyclicInput =>
          Len(stack) <= Max({InlineDepth(json_schema),
                             1 + MaxDefinitionDepth(json_schema)})
                        + LongestChain(json_schema))
  /\ (AcyclicInput ~> Done)

\* C10 amended: without a reference cycle the call ends, and the builder
\* calls never nest deeper than the inline nesting depth of the top-level
\* schema plus, for each reference of the longest chain, the greatest inline
\* nesting depth of a definition.
C10_TerminatesWithinDepth ==
  /\ [](AcyclicInput =>
          Len(stack) <= InlineDepth(json_schema)
                        + LongestChain(json_schema)
                          * MaxDefinitionDepth(json_schema))
  /\ (AcyclicInput ~> Done)

C10_Witness ==
  /\ AcyclicInput
  /\ LongestChain(json_schema) = 3
  /\ Len(stack) = 7

====
